---- MODULE Spec2Model ----
(***************************************************************************)
(* RuleSetCompiler (lib/rules/RuleSetCompiler.js): the condition compiler, *)
(* the rule compiler and the rule tree executor.                           *)
(*                                                                         *)
(* JavaScript values are tagged records.  A string is a sequence of        *)
(* one-character strings, an object is the sequence of its own enumerable  *)
(* entries in key order, a closure is a record naming its code and holding *)
(* the variables it captured.  A call that may throw returns Ok(value) or  *)
(* Throw(error).                                                           *)
(***************************************************************************)
EXTENDS Integers, Sequences, FiniteSets, TLC

VARIABLES
    condition,      \* the raw condition handed to compileCondition
    compiled,       \* what compileCondition returned or threw for it
    tested,         \* the last value the compiled predicate was applied to
    ruleSet,        \* the raw rule list handed to compile
    plugins,        \* which rule handlers are tapped on hooks.rule
    ruleSetResult,  \* what compile returned or threw for it
    rules,          \* the compiled rules the exec closure holds
    data,           \* the input record of the last exec call
    effects,        \* the effect list the last exec call returned
    log,            \* the calls the last exec call made, in order
    lastIndex,      \* lastIndex of the RegExp object with the g flag
    calls,          \* every exec call made so far: its record and its result
    externals,      \* the externals configuration of ExternalModuleFactoryPlugin
    factorizing,    \* whether the factorize hook has been invoked for the request
    arrays,         \* per handleExternals call on an array: its items, its
                    \* callback and its index i
    asyncFlags,     \* per call of next: its asyncFlag
    pending,        \* the answers externals functions will give later
    invoked,        \* the calls of the request's callback, with their arguments
    consulted       \* the handleExternals calls made, by place in the configuration

condVars == <<condition, compiled, tested>>
ruleVars == <<ruleSet, plugins, ruleSetResult>>
execVars == <<rules, data, effects, log, lastIndex, calls>>
extVars == <<externals, factorizing, arrays, asyncFlags, pending, invoked, consulted>>
vars == <<condition, compiled, tested, ruleSet, plugins, ruleSetResult,
          rules, data, effects, log, lastIndex, calls,
          externals, factorizing, arrays, asyncFlags, pending, invoked, consulted>>

\* no ExternalModuleFactoryPlugin at work
ExternalsIdle ==
    /\ externals = <<>> /\ factorizing = FALSE
    /\ arrays = <<>> /\ asyncFlags = <<>>
    /\ pending = {} /\ invoked = <<>> /\ consulted = <<>>

(***************************************************************************)
(* Bounds                                                                  *)
(***************************************************************************)
\* longest condition array that is enumerated
MaxItems == 2
\* most compiled rules in an enumerated rule tree
MaxRules == 3
\* most entries, in all, in an enumerated raw rule list
MaxEntries == 2
\* most exec calls made on one compiled tree
MaxCalls == 3
\* most items, arrays and their members counted, in an enumerated externals
\* configuration
MaxExternals == 4

(***************************************************************************)
(* JavaScript values                                                       *)
(***************************************************************************)
Undefined == [t |-> "undefined"]
Null == [t |-> "null"]
NaN == [t |-> "number", n |-> "NaN"]
Zero == [t |-> "number", n |-> "0"]
One == [t |-> "number", n |-> "1"]
Bool(b) == [t |-> "boolean", b |-> b]
Str(s) == [t |-> "string", s |-> s]
Fun(name) == [t |-> "function", name |-> name]
RegExp(source) == [t |-> "regexp", source |-> source]
RegExpG(source) == [t |-> "regexp", source |-> source, flags |-> "g"]
Arr(items) == [t |-> "array", items |-> items]
Obj(entries) == [t |-> "object", entries |-> entries]
Entry(key, value) == [key |-> key, value |-> value]

EmptyString == Str(<<>>)

\* ToBoolean: the values `!condition` and `if (value)` treat as false
Falsy(v) == v \in {Undefined, Null, NaN, Zero, Bool(FALSE), EmptyString}

\* the typeof operator
TypeOf(v) ==
    IF v.t \in {"null", "regexp", "array", "object"} THEN "object" ELSE v.t

\* Array.isArray
IsArray(v) == v.t = "array"

\* Object.prototype.hasOwnProperty.call(o, key), o a mapping
HasOwn(o, key) ==
    /\ o.t = "object"
    /\ \E i \in 1..Len(o.entries) : o.entries[i].key = key

\* o[key] for an own key of a mapping
Get(o, key) ==
    LET i == CHOOSE j \in 1..Len(o.entries) : o.entries[j].key = key
    IN  o.entries[i].value

\* String.prototype.startsWith
StartsWith(s, prefix) ==
    /\ Len(prefix) <= Len(s)
    /\ \A i \in 1..Len(prefix) : s[i] = prefix[i]

\* RegExp.prototype.test from lastIndex 0 for the expressions of the model:
\* /^a/, /^b*$/ and /a/
RegExpTest(re, s) ==
    IF re.source = "^a"
    THEN Len(s) > 0 /\ s[1] = "a"
    ELSE IF re.source = "a"
    THEN \E i \in 1..Len(s) : s[i] = "a"
    ELSE \A i \in 1..Len(s) : s[i] = "b"

\* whether test reads and writes the lastIndex of the expression (g flag)
IsGlobal(re) == "flags" \in DOMAIN re

\* RegExp.prototype.test for /a/g: the search starts at lastIndex, a match
\* leaves lastIndex behind the match, a failure leaves it at 0
RegExpTestFrom(re, s, from) ==
    LET found == {i \in (from + 1)..Len(s) : s[i] = "a"}
    IN  IF found = {}
        THEN [result |-> FALSE, lastIndex |-> 0]
        ELSE [result |-> TRUE,
              lastIndex |-> CHOOSE i \in found : \A j \in found : i <= j]

\* the user functions of the model: isEmpty is (v) => v === "", isString is
\* (v) => typeof v === "string", throws is a function that throws when probed
UserFunctionThrows(f, v) == f.name = "throws"
UserFunctionCall(f, v) ==
    IF f.name = "isEmpty" THEN v = EmptyString ELSE v.t = "string"

Ok(value) == [ok |-> TRUE, value |-> value]
Throw(err) == [ok |-> FALSE, error |-> err]

\* RuleSetCompiler.error: the message, with the path and the offending value
\* kept as fields of their own
error(path, value, message) ==
    [message |-> "Compiling RuleSet failed: " \o message,
     path |-> path, value |-> value]

(***************************************************************************)
(* Condition compiler                                                      *)
(***************************************************************************)
\* a compiled predicate applied to a value
RECURSIVE Call(_, _)
Call(fn, v) ==
    CASE fn.f = "isEmptyString" -> v = EmptyString
      [] fn.f = "startsWith" ->
            v.t = "string" /\ StartsWith(v.s, fn.condition.s)
      [] fn.f = "function" -> UserFunctionCall(fn.condition, v)
      [] fn.f = "regexp" ->
            v.t = "string" /\ RegExpTest(fn.condition, v.s)
      [] fn.f = "not" -> ~Call(fn.fn, v)
      [] fn.f = "some" ->
            \E i \in 1..Len(fn.conditions) : Call(fn.conditions[i].fn, v)
      [] fn.f = "every" ->
            \A i \in 1..Len(fn.conditions) : Call(fn.conditions[i].fn, v)
      [] fn.f = "false" -> FALSE

\* a compiled predicate applied to a value when the RegExp object with the g
\* flag has this lastIndex: the result and the lastIndex it leaves.  `some`
\* and `every` stop at the first member that decides.
RECURSIVE CallFrom(_, _, _)
RECURSIVE CallMembers(_, _, _, _, _)
CallMembers(conditions, i, v, from, stopAt) ==
    IF i > Len(conditions)
    THEN [result |-> ~stopAt, lastIndex |-> from]
    ELSE LET r == CallFrom(conditions[i].fn, v, from)
         IN  IF r.result = stopAt
             THEN r
             ELSE CallMembers(conditions, i + 1, v, r.lastIndex, stopAt)
CallFrom(fn, v, from) ==
    CASE fn.f = "regexp" /\ IsGlobal(fn.condition) ->
            IF v.t = "string"
            THEN RegExpTestFrom(fn.condition, v.s, from)
            ELSE [result |-> FALSE, lastIndex |-> from]
      [] fn.f = "not" ->
            LET r == CallFrom(fn.fn, v, from)
            IN  [result |-> ~r.result, lastIndex |-> r.lastIndex]
      [] fn.f = "some" -> CallMembers(fn.conditions, 1, v, from, TRUE)
      [] fn.f = "every" -> CallMembers(fn.conditions, 1, v, from, FALSE)
      [] OTHER -> [result |-> Call(fn, v), lastIndex |-> from]

Condition(matchWhenEmpty, fn) == [matchWhenEmpty |-> matchWhenEmpty, fn |-> fn]

combineConditionsOr(conditions) ==
    IF Len(conditions) = 0
    THEN Condition(FALSE, [f |-> "false"])
    ELSE IF Len(conditions) = 1
    THEN conditions[1]
    ELSE Condition(\E i \in 1..Len(conditions) : conditions[i].matchWhenEmpty,
                   [f |-> "some", conditions |-> conditions])

\* combineConditionsAnd with `some` where the code has `every`
combineConditionsAndSome(conditions) ==
    IF Len(conditions) = 0
    THEN Condition(FALSE, [f |-> "false"])
    ELSE IF Len(conditions) = 1
    THEN conditions[1]
    ELSE Condition(\E i \in 1..Len(conditions) : conditions[i].matchWhenEmpty,
                   [f |-> "some", conditions |-> conditions])

combineConditionsAnd(conditions) ==
    IF Len(conditions) = 0
    THEN Condition(FALSE, [f |-> "false"])
    ELSE IF Len(conditions) = 1
    THEN conditions[1]
    ELSE Condition(\A i \in 1..Len(conditions) : conditions[i].matchWhenEmpty,
                   [f |-> "every", conditions |-> conditions])

\* the condition pushed for the key `not`, from the compiled operand
negateCondition(matcher) ==
    Condition(~matcher.matchWhenEmpty, [f |-> "not", fn |-> matcher.fn])

\* whether the loop over an object's keys compiles the value of a key
\* (`if (value)`)
isGiven(value) == ~Falsy(value)

\* isEmptyThing without the check of the length
isEmptyThingNever(conditions) == FALSE

\* whether a condition object that pushed these conditions is rejected as
\* empty (`conditions.length === 0`)
isEmptyThing(conditions) == Len(conditions) = 0

\* Collect that drops the items that threw
CollectSkipping(results) ==
    LET Fine(r) == r.ok
        kept == SelectSeq(results, Fine)
    IN  Ok([i \in 1..Len(kept) |-> kept[i].value])

\* the first throw of a sequence of results, or Ok of their values in order
Collect(results) ==
    IF \E i \in 1..Len(results) : ~results[i].ok
    THEN results[CHOOSE i \in 1..Len(results) :
                    /\ ~results[i].ok
                    /\ \A j \in 1..(i - 1) : results[j].ok]
    ELSE Ok([i \in 1..Len(results) |-> results[i].value])

Index(path, i) == path \o "[" \o ToString(i - 1) \o "]"

RECURSIVE compileCondition(_, _)
RECURSIVE compileConditionObject(_, _, _, _)

\* the loop over Object.keys(condition), from its k-th key on, with the
\* conditions pushed so far
compileConditionObject(path, cond, k, conditions) ==
    IF k > Len(cond.entries)
    THEN IF isEmptyThing(conditions)
         THEN Throw(error(path, cond, "Expected condition, but got empty thing"))
         ELSE Ok(combineConditionsAnd(conditions))
    ELSE
    LET key == cond.entries[k].key
        value == cond.entries[k].value
    IN
    CASE key = "or" ->
            IF ~isGiven(value)
            THEN compileConditionObject(path, cond, k + 1, conditions)
            ELSE IF ~IsArray(value)
            THEN Throw(error(path \o ".or", value, "Expected array of conditions"))
            ELSE LET c == compileCondition(path \o ".or", value)
                 IN  IF c.ok
                     THEN compileConditionObject(path, cond, k + 1,
                                                 Append(conditions, c.value))
                     ELSE c
      [] key = "and" ->
            IF ~isGiven(value)
            THEN compileConditionObject(path, cond, k + 1, conditions)
            ELSE IF ~IsArray(value)
            THEN Throw(error(path \o ".and", value, "Expected array of conditions"))
            ELSE LET cs == Collect([i \in 1..Len(value.items) |->
                                compileCondition(Index(path \o ".and", i),
                                                 value.items[i])])
                 IN  IF cs.ok
                     THEN compileConditionObject(path, cond, k + 1,
                                                 conditions \o cs.value)
                     ELSE cs
      [] key = "not" ->
            IF ~isGiven(value)
            THEN compileConditionObject(path, cond, k + 1, conditions)
            ELSE LET matcher == compileCondition(path \o ".not", value)
                 IN  IF matcher.ok
                     THEN compileConditionObject(path, cond, k + 1,
                              Append(conditions, negateCondition(matcher.value)))
                     ELSE matcher
      [] OTHER ->
            Throw(error(path \o "." \o key, value,
                        "Unexpected property " \o key \o " in condition"))

compileCondition(path, cond) ==
    IF cond = EmptyString
    THEN Ok(Condition(TRUE, [f |-> "isEmptyString"]))
    ELSE IF Falsy(cond)
    THEN Throw(error(path, cond, "Expected condition but got falsy value"))
    ELSE IF TypeOf(cond) = "string"
    THEN Ok(Condition(Len(cond.s) = 0, [f |-> "startsWith", condition |-> cond]))
    ELSE IF TypeOf(cond) = "function"
    THEN IF UserFunctionThrows(cond, EmptyString)
         THEN Throw(error(path, cond, "Evaluation of condition function threw error"))
         ELSE Ok(Condition(UserFunctionCall(cond, EmptyString),
                           [f |-> "function", condition |-> cond]))
    ELSE IF cond.t = "regexp"
    THEN Ok(Condition(RegExpTest(cond, <<>>), [f |-> "regexp", condition |-> cond]))
    ELSE IF IsArray(cond)
    THEN LET items == Collect([i \in 1..Len(cond.items) |->
                          compileCondition(Index(path, i), cond.items[i])])
         IN  IF items.ok THEN Ok(combineConditionsOr(items.value)) ELSE items
    ELSE IF TypeOf(cond) # "object"
    THEN Throw(error(path, cond,
               "Unexpected " \o TypeOf(cond) \o " when condition was expected"))
    ELSE compileConditionObject(path, cond, 1, <<>>)

(***************************************************************************)
(* The condition compiler as a state machine: a raw condition is compiled  *)
(* once, and the compiled predicate is then applied to values, as execRule *)
(* applies condition.fn to the value of a property.                        *)
(***************************************************************************)
None == <<>>
Some(x) == <<x>>

SeqsUpTo(S, n) == UNION {[1..k -> S] : k \in 0..n}

ReB == RegExp("^b*$")
StrA == Str(<<"a">>)

\* raw conditions without parts
AtomConditions ==
    {EmptyString, StrA, Str(<<"a", "b">>),
     Undefined, Null, NaN, Zero, Bool(FALSE), Bool(TRUE), One,
     Fun("isEmpty"), Fun("isString"), Fun("throws"),
     RegExp("^a"), ReB}

\* the items of the enumerated condition arrays
ItemConditions == {EmptyString, StrA, ReB, Fun("isString"), Null}

ArrayConditions == {Arr(s) : s \in SeqsUpTo(ItemConditions, MaxItems)}

\* the values enumerated for the keys of a condition object
OperandLists ==
    {Arr(<<>>), Arr(<<StrA>>), Arr(<<EmptyString, ReB>>), Arr(<<StrA, ReB>>),
     Arr(<<StrA, Null>>)}
KeyValues(key) ==
    CASE key \in {"or", "and"} -> {Undefined, StrA} \cup OperandLists
      [] key = "not" -> {Undefined, EmptyString, StrA, ReB, Arr(<<>>)}
      [] OTHER -> {One}
ConditionKeys == {"or", "and", "not", "test"}
KeySeqs ==
    {ks \in SeqsUpTo(ConditionKeys, Cardinality(ConditionKeys)) :
        \A i, j \in 1..Len(ks) : i # j => ks[i] # ks[j]}
ObjectsWithKeys(ks) ==
    {Obj([i \in 1..Len(ks) |-> Entry(ks[i], f[i])]) :
        f \in {g \in [1..Len(ks) -> UNION {KeyValues(k) : k \in ConditionKeys}] :
                  \A i \in 1..Len(ks) : g[i] \in KeyValues(ks[i])}}
ObjectConditions == UNION {ObjectsWithKeys(ks) : ks \in KeySeqs}

Not(c) == Obj(<<Entry("not", c)>>)
BaseConditions == AtomConditions \cup ArrayConditions \cup ObjectConditions
RawConditions == BaseConditions \cup {Not(c) : c \in BaseConditions}

\* the values a compiled predicate is applied to (never undefined: execRule
\* calls condition.fn only on a defined value)
TestValues ==
    {EmptyString, StrA, Str(<<"a", "b">>), Str(<<"b">>), Str(<<"b", "b">>),
     One, Null, Obj(<<>>)}

InitCondition ==
    /\ condition \in RawConditions
    /\ compiled = None
    /\ tested = None
    /\ ruleSet = None /\ plugins = None /\ ruleSetResult = None
    /\ ExternalsIdle
    /\ rules = None /\ data = None /\ effects = None /\ log = None
    /\ lastIndex = 0 /\ calls = <<>>

\* compileCondition("condition", condition)
CompileCondition ==
    /\ compiled = None
    /\ compiled' = Some(compileCondition("condition", condition))
    /\ UNCHANGED <<condition, tested, ruleVars, execVars, extVars>>

\* condition.fn(value) on the compiled condition
TestCondition ==
    /\ compiled # None
    /\ compiled[1].ok
    /\ \E v \in TestValues :
          tested' = Some([value |-> v, result |-> Call(compiled[1].value.fn, v)])
    /\ UNCHANGED <<condition, compiled, ruleVars, execVars, extVars>>

NextCondition == CompileCondition \/ TestCondition

SpecCondition == InitCondition /\ [][NextCondition]_vars

(***************************************************************************)
(* Properties of the condition compiler (SpecCondition)                    *)
(***************************************************************************)
IsCompiled == compiled # None
IsTested == tested # None
MembersOf(items) ==
    [i \in 1..Len(items) |-> compileCondition("member", items[i])]
AllCompile(items) == \A i \in 1..Len(items) : MembersOf(items)[i].ok
OnlyKey(c, key) ==
    /\ c.t = "object"
    /\ Len(c.entries) = 1
    /\ c.entries[1].key = key
IsListOf(c, key) == OnlyKey(c, key) /\ IsArray(c.entries[1].value)

\* what the claim says of a combination of the members of `items`: any of
\* them for "or", all of them for "and", the member itself when it is alone
CombinedAs(op, items) ==
    LET ms == MembersOf(items)
        n == Len(items)
    IN  (IsCompiled /\ n >= 1 /\ AllCompile(items)) =>
        /\ compiled[1].ok
        /\ n = 1 => compiled[1].value = ms[1].value
        /\ n > 1 =>
            /\ compiled[1].value.matchWhenEmpty =
                   IF op = "or"
                   THEN \E i \in 1..n : ms[i].value.matchWhenEmpty
                   ELSE \A i \in 1..n : ms[i].value.matchWhenEmpty
            /\ IsTested =>
                   tested[1].result =
                       IF op = "or"
                       THEN \E i \in 1..n : Call(ms[i].value.fn, tested[1].value)
                       ELSE \A i \in 1..n : Call(ms[i].value.fn, tested[1].value)

\* C6: an array or an `or` list of k > 1 conditions matches a value iff some
\* member matches it and matches when empty iff some member does; an `and`
\* list of k > 1 conditions matches iff every member matches and matches when
\* empty iff every member does; for k = 1 the compiled condition is the
\* compiled member itself.
C6_Combine ==
    /\ IsArray(condition) => CombinedAs("or", condition.items)
    /\ IsListOf(condition, "or") => CombinedAs("or", condition.entries[1].value.items)
    /\ IsListOf(condition, "and") => CombinedAs("and", condition.entries[1].value.items)

\* an `and` list of two members that differ in matchWhenEmpty and on the
\* tested value has been compiled and applied
C6_Witness ==
    /\ IsListOf(condition, "and")
    /\ condition.entries[1].value.items = <<StrA, ReB>>
    /\ IsCompiled /\ compiled[1].ok /\ ~compiled[1].value.matchWhenEmpty
    /\ IsTested /\ tested[1].value = StrA /\ ~tested[1].result

\* C7: for every raw condition C that compiles on its own, the empty string
\* included, {not: C} compiles to a condition that matches a value iff the
\* compiled C does not, and whose matchWhenEmpty is the negation of C's.
C7_NotNegates ==
    (IsCompiled /\ OnlyKey(condition, "not")
        /\ compileCondition("operand", condition.entries[1].value).ok) =>
    LET c == compileCondition("operand", condition.entries[1].value).value
    IN  /\ compiled[1].ok
        /\ compiled[1].value.matchWhenEmpty = ~c.matchWhenEmpty
        /\ IsTested => tested[1].result = ~Call(c.fn, tested[1].value)

EmptyArray == Arr(<<>>)
EmptyOr == Obj(<<Entry("or", EmptyArray)>>)
EmptyAnd == Obj(<<Entry("and", EmptyArray)>>)
NeverMatches ==
    /\ compiled[1].ok
    /\ ~compiled[1].value.matchWhenEmpty
    /\ IsTested => ~tested[1].result
EmptyThingMessage == "Compiling RuleSet failed: Expected condition, but got empty thing"

\* C8 as stated: [], {or: []} and {and: []} each compile to a condition that
\* matches no value and does not match when empty.
C8_EmptyCombinators ==
    (IsCompiled /\ condition \in {EmptyArray, EmptyOr, EmptyAnd}) => NeverMatches

\* C8 as amended: [] and {or: []} compile to a condition that matches no
\* value and does not match when empty; {and: []} pushes no condition and is
\* rejected with "Expected condition, but got empty thing".
C8_EmptyCombinatorsAmended ==
    /\ (IsCompiled /\ condition \in {EmptyArray, EmptyOr}) => NeverMatches
    /\ (IsCompiled /\ condition = EmptyAnd) =>
            /\ ~compiled[1].ok
            /\ compiled[1].error.message = EmptyThingMessage
            /\ compiled[1].error.path = "condition"

\* {and: []} has been compiled
C8_Witness == IsCompiled /\ condition = EmptyAnd /\ ~compiled[1].ok

Rejected == ~compiled[1].ok
FalsyCondition(c) == Falsy(c) /\ c # EmptyString
\* an object whose every entry is skipped or spreads no member: a key of
\* or/and/not with a falsy value other than `not: ""`, or `and: []`
YieldsNothing(c) ==
    \A i \in 1..Len(c.entries) :
        LET e == c.entries[i]
        IN  /\ e.key \in {"or", "and", "not"}
            /\ \/ FalsyCondition(e.value)
               \/ e.key \in {"or", "and"} /\ e.value = EmptyString
               \/ e.key = "and" /\ e.value = EmptyArray

\* C9: compileCondition throws, and returns no condition, for a falsy
\* condition other than "", for an array with such an item, for {}, for an
\* object that yields no sub-condition and for an object with a key other than
\* or/and/not, whatever its other keys and their order; "" compiles to a
\* condition that matches when empty and matches the value "" only.
C9_Rejects ==
    IsCompiled =>
    /\ FalsyCondition(condition) => Rejected
    /\ (IsArray(condition)
            /\ \E i \in 1..Len(condition.items) : FalsyCondition(condition.items[i]))
        => Rejected
    /\ condition = Obj(<<>>) => Rejected
    /\ (condition.t = "object" /\ YieldsNothing(condition)) => Rejected
    /\ (condition.t = "object"
            /\ \E i \in 1..Len(condition.entries) :
                  condition.entries[i].key \notin {"or", "and", "not"})
        => Rejected
    /\ condition = EmptyString =>
            /\ compiled[1].ok
            /\ compiled[1].value.matchWhenEmpty
            /\ IsTested => tested[1].result = (tested[1].value = EmptyString)

\* an object with an `or` list that compiles, followed by a key that is not
\* or/and/not, has been rejected
C9_Witness ==
    /\ IsCompiled /\ Rejected
    /\ condition.t = "object" /\ Len(condition.entries) = 2
    /\ condition.entries[1] = Entry("or", Arr(<<StrA>>))
    /\ condition.entries[2].key = "test"

(***************************************************************************)
(* Rule compiler                                                           *)
(***************************************************************************)
\* Object.keys(o)
ObjectKeys(o) == [i \in 1..Len(o.entries) |-> o.entries[i].key]

\* o[key]: the own value, undefined for a key the mapping does not have
Prop(o, key) == IF HasOwn(o, key) THEN Get(o, key) ELSE Undefined

\* Set.prototype.delete on a set kept in insertion order
Delete(set, key) == LET Other(k) == k # key IN SelectSeq(set, Other)
Has(set, key) == \E i \in 1..Len(set) : set[i] = key

\* Array.prototype.join(", ")
RECURSIVE Join(_)
Join(keys) ==
    IF Len(keys) = 0
    THEN ""
    ELSE IF Len(keys) = 1
    THEN keys[1]
    ELSE keys[1] \o ", " \o Join(Tail(keys))

\* a compiled condition bound to the property it reads
RuleCondition(property, c) ==
    [property |-> property, matchWhenEmpty |-> c.matchWhenEmpty, fn |-> c.fn]
PropertyName(name) == [t |-> "string", name |-> name]

\* a static effect
Effect(type, value) == [t |-> "object", type |-> type, value |-> value]

\* the handlers tapped on hooks.rule are not part of RuleSetCompiler.js; the
\* two modelled are the stub handlers of the specification: `test` compiles
\* a condition on `resource`, `use` pushes one static effect.  A handler
\* receives and returns the builder state.
callHandler(name, path, rule, b) ==
    IF ~Has(b.unhandledProperties, name)
    THEN Ok(b)
    ELSE IF name = "test"
    THEN LET c == compileCondition(path \o ".test", Prop(rule, "test"))
         IN  IF c.ok
             THEN Ok([b EXCEPT
                      !.unhandledProperties = Delete(@, "test"),
                      !.compiledRule.conditions =
                          Append(@, RuleCondition(PropertyName("resource"), c.value))])
             ELSE c
    ELSE Ok([b EXCEPT
             !.unhandledProperties = Delete(@, "use"),
             !.compiledRule.effects = Append(@, Effect("use", Prop(rule, "use")))])

\* hooks.rule.call: every tapped handler in registration order
RECURSIVE callHooks(_, _, _, _)
callHooks(taps, path, rule, b) ==
    IF taps = <<>>
    THEN Ok(b)
    ELSE LET r == callHandler(Head(taps), path, rule, b)
         IN  IF r.ok THEN callHooks(Tail(taps), path, rule, r.value) ELSE r

\* definedKeys without the filter on undefined values
definedKeysAll(rule) == ObjectKeys(rule)

\* the keys compileRule starts from: those whose value is not undefined
definedKeys(rule) ==
    LET IsDefined(key) == Prop(rule, key) # Undefined
    IN  SelectSeq(ObjectKeys(rule), IsDefined)

\* the entries compileRules keeps (`filter(Boolean)`)
keptRules(list) == LET Truthy(r) == ~Falsy(r) IN SelectSeq(list, Truthy)

\* the rejection of what is left unhandled, if anything is
unknownProperties(path, rule, unhandledProperties) ==
    IF Len(unhandledProperties) > 0
    THEN Some(error(path, rule,
              "Properties " \o Join(unhandledProperties) \o " are unknown"))
    ELSE None

RECURSIVE compileRule(_, _, _, _)
RECURSIVE compileRulesFrom(_, _, _, _, _, _)

\* the map over the kept entries, from the i-th on, with the rules compiled
\* so far; the references are threaded through
compileRulesFrom(taps, path, kept, i, refs, done) ==
    IF i > Len(kept)
    THEN Ok([rules |-> done, refs |-> refs])
    ELSE LET r == compileRule(taps, Index(path, i), kept[i], refs)
         IN  IF r.ok
             THEN compileRulesFrom(taps, path, kept, i + 1, r.value.refs,
                                   Append(done, r.value.rule))
             ELSE r

compileRules(taps, path, list, refs) ==
    compileRulesFrom(taps, path, keptRules(list.items), 1, refs, <<>>)

\* groupMessage with the message of `rules` for both keys
groupMessageRules(key) == "Rule.rules must be an array of rules"

\* the message for a `rules` or `oneOf` that is not an array
groupMessage(key) == "Rule." \o key \o " must be an array of rules"

\* `rules` or `oneOf` of compileRule: the group compiled when the key is
\* still unhandled
compileGroup(taps, path, rule, key, b) ==
    IF ~Has(b.unhandledProperties, key)
    THEN Ok(b)
    ELSE LET group == Prop(rule, key)
         IN  IF ~IsArray(group)
             THEN Throw(error(path, group, groupMessage(key)))
             ELSE LET r == compileRules(taps, path \o "." \o key, group, b.refs)
                  IN  IF r.ok
                      THEN Ok([unhandledProperties |->
                                   Delete(b.unhandledProperties, key),
                               compiledRule |->
                                   [b.compiledRule EXCEPT ![key] = Some(r.value.rules)],
                               refs |-> r.value.refs])
                      ELSE r

compileRule(taps, path, rule, refs) ==
    LET b0 == [unhandledProperties |-> definedKeys(rule),
               compiledRule |-> [conditions |-> <<>>, effects |-> <<>>,
                                 rules |-> None, oneOf |-> None],
               refs |-> refs]
        b1 == callHooks(taps, path, rule, b0)
    IN  IF ~b1.ok THEN b1 ELSE
        LET b2 == compileGroup(taps, path, rule, "rules", b1.value)
        IN  IF ~b2.ok THEN b2 ELSE
            LET b3 == compileGroup(taps, path, rule, "oneOf", b2.value)
            IN  IF ~b3.ok THEN b3 ELSE
                LET unknown == unknownProperties(path, rule,
                                                 b3.value.unhandledProperties)
                IN  IF unknown # None
                    THEN Throw(unknown[1])
                    ELSE Ok([rule |-> b3.value.compiledRule,
                             refs |-> b3.value.refs])

\* compile, up to the construction of the exec closure: the references and
\* the compiled rules the closure captures
compile(taps, list) == compileRules(taps, "ruleSet", list, <<>>)

(***************************************************************************)
(* Rule tree executor.  exec and execRule carry the effects array and, as  *)
(* a history of the call, the log of what they did: every execRule call    *)
(* and return, every predicate call ("fn"), every condition settled by its *)
(* matchWhenEmpty, every generator call ("effect"), every push.  A rule is *)
(* named in the log by its place in the tree, `at`.                        *)
(***************************************************************************)
Event(op, at, arg) == [op |-> op, at |-> at, arg |-> arg]
logged(st, e) == [st EXCEPT !.log = Append(@, e)]
Child(at, g, i) == Append(at, [g |-> g, i |-> i])

\* the generators of the model: `loaders` returns no effect for a record
\* without a string resource, one effect for a record without
\* descriptionData and two otherwise, in that order
Returned(f, n) == Effect("use", [by |-> f, n |-> n])
CallGenerator(f, d) ==
    IF ~(HasOwn(d, "resource") /\ Get(d, "resource").t = "string")
    THEN <<>>
    ELSE IF ~HasOwn(d, "descriptionData")
    THEN <<Returned(f, "first")>>
    ELSE <<Returned(f, "first"), Returned(f, "second")>>

\* the walk along a property path, from its i-th segment on
RECURSIVE walk(_, _, _)
walk(current, p, i) ==
    IF i > Len(p)
    THEN current
    ELSE IF ~Falsy(current) /\ TypeOf(current) = "object" /\ HasOwn(current, p[i])
    THEN walk(Get(current, p[i]), p, i + 1)
    ELSE Undefined

\* `p in data` for a record that is a plain mapping and a key Object.prototype
\* does not have
In(key, d) == HasOwn(d, key)

\* the value read for a condition's property; undefined when there is none
resolve(d, p) ==
    IF IsArray(p)
    THEN walk(d, p.items, 1)
    ELSE IF In(p.name, d) THEN Get(d, p.name) ELSE Undefined

\* isDefined by truthiness (`if (current)`)
isDefinedTruthy(value) == ~Falsy(value)

\* `current !== undefined`, `value !== undefined`
isDefined(value) == value # Undefined

\* absentPasses that does not read matchWhenEmpty
absentPassesAlways(c) == TRUE

\* whether a condition whose property has no defined value lets the rule go on
absentPasses(c) == c.matchWhenEmpty

\* pushAll with `unshift` where the code has `push`
pushAllFront(st, at, returned) ==
    [st EXCEPT
     !.effects = returned \o @,
     !.log = @ \o [i \in 1..Len(returned) |-> Event("push", at, returned[i])]]

\* the effects array after the effects a generator returned are pushed
pushAll(st, at, returned) ==
    [st EXCEPT
     !.effects = @ \o returned,
     !.log = @ \o [i \in 1..Len(returned) |-> Event("push", at, returned[i])]]

\* the loops with each other's exit
continueRulesUntilMatch(matched) == ~matched
continueOneOfAlways(matched) == TRUE

\* whether the loop over a rules group, or a oneOf group, goes on to the next
\* child after a child returned `matched`
continueRules(matched) == TRUE
continueOneOf(matched) == ~matched

\* the loop over rule.conditions, from the k-th condition on
RECURSIVE execConditions(_, _, _, _, _)
execConditions(d, rule, at, k, st) ==
    IF k > Len(rule.conditions)
    THEN [passed |-> TRUE, st |-> st]
    ELSE
    LET c == rule.conditions[k]
        value == resolve(d, c.property)
        r == CallFrom(c.fn, value, st.lastIndex)
        called == [logged(st, Event("fn", at, [k |-> k, value |-> value]))
                   EXCEPT !.lastIndex = r.lastIndex]
        empty == logged(st, Event("matchWhenEmpty", at, [k |-> k]))
    IN  IF isDefined(value)
        THEN IF ~r.result
             THEN [passed |-> FALSE, st |-> called]
             ELSE execConditions(d, rule, at, k + 1, called)
        ELSE IF ~absentPasses(c)
             THEN [passed |-> FALSE, st |-> empty]
             ELSE execConditions(d, rule, at, k + 1, empty)

\* the loop over rule.effects, from the k-th effect on
RECURSIVE execEffects(_, _, _, _, _)
execEffects(d, rule, at, k, st) ==
    IF k > Len(rule.effects)
    THEN st
    ELSE
    LET effect == rule.effects[k]
    IN  IF TypeOf(effect) = "function"
        THEN execEffects(d, rule, at, k + 1,
                 pushAll(logged(st, Event("effect", at, k)), at,
                         CallGenerator(effect, d)))
        ELSE execEffects(d, rule, at, k + 1, pushAll(st, at, <<effect>>))

RECURSIVE execRule(_, _, _, _)
RECURSIVE execRules(_, _, _, _, _)
RECURSIVE execOneOf(_, _, _, _, _)

\* the loop over rule.rules, from the i-th child on
execRules(d, children, at, i, st) ==
    IF i > Len(children)
    THEN st
    ELSE LET r == execRule(d, children[i], Child(at, "rules", i), st)
         IN  IF continueRules(r.matched)
             THEN execRules(d, children, at, i + 1, r.st)
             ELSE r.st

\* the loop over rule.oneOf, from the i-th child on
execOneOf(d, children, at, i, st) ==
    IF i > Len(children)
    THEN st
    ELSE LET r == execRule(d, children[i], Child(at, "oneOf", i), st)
         IN  IF continueOneOf(r.matched)
             THEN execOneOf(d, children, at, i + 1, r.st)
             ELSE r.st

\* returnsAfterGroups that tells whether anything was pushed
returnsIfPushed(before, after) == Len(after.effects) > Len(before.effects)

\* what execRule returns once the conditions have passed and the effects and
\* the groups are done (`return true`)
returnsAfterGroups(before, after) == TRUE

execRule(d, rule, at, st) ==
    LET entered == logged(st, Event("execRule", at, None))
        conds == execConditions(d, rule, at, 1, entered)
    IN  IF ~conds.passed
        THEN [matched |-> FALSE,
              st |-> logged(conds.st, Event("return", at, FALSE))]
        ELSE
        LET pushed == execEffects(d, rule, at, 1, conds.st)
            afterRules == IF rule.rules # None
                          THEN execRules(d, rule.rules[1], at, 1, pushed)
                          ELSE pushed
            afterOneOf == IF rule.oneOf # None
                          THEN execOneOf(d, rule.oneOf[1], at, 1, afterRules)
                          ELSE afterRules
            result == returnsAfterGroups(conds.st, afterOneOf)
        IN  [matched |-> result,
             st |-> logged(afterOneOf, Event("return", at, result))]

\* whether the loop of exec goes on to the next rule after a rule returned
continueExec(matched) == TRUE

\* the loop of exec over the compiled rules, from the i-th rule on
RECURSIVE execFrom(_, _, _, _)
execFrom(d, compiledRules, i, st) ==
    IF i > Len(compiledRules)
    THEN st
    ELSE LET r == execRule(d, compiledRules[i], Child(<<>>, "ruleSet", i), st)
         IN  IF continueExec(r.matched)
             THEN execFrom(d, compiledRules, i + 1, r.st)
             ELSE r.st

\* exec(d), called when the RegExp object with the g flag has lastIndex
\* `from`
exec(compiledRules, d, from) ==
    execFrom(d, compiledRules, 1,
             [effects |-> <<>>, log |-> <<>>, lastIndex |-> from])

(***************************************************************************)
(* The executor as a state machine: compile has returned an exec closure   *)
(* over a tree of compiled rules; exec is called on an input record and    *)
(* runs to its return (it has no suspension point).                        *)
(***************************************************************************)
StrX == Str(<<"x">>)
TypePath == Arr(<<"descriptionData", "type">>)

\* the conditions and effects of the enumerated compiled rules, by kind:
\*   "loader"  no condition; a static effect, a generator, a static effect
\*   "typed"   descriptionData.type passes {not: "x"}, resource passes "a";
\*             one static effect
\*   "guard"   resource passes {not: "b"}, descriptionData.type passes "x";
\*             no effect
Kinds == {"loader", "typed", "guard"}
Compiled(c) == compileCondition("condition", c).value
KindConditions(kind) ==
    CASE kind = "loader" -> <<>>
      [] kind = "typed" ->
            <<RuleCondition(TypePath, Compiled(Not(StrX))),
              RuleCondition(PropertyName("resource"), Compiled(StrA))>>
      [] kind = "guard" ->
            <<RuleCondition(PropertyName("resource"), Compiled(Not(Str(<<"b">>)))),
              RuleCondition(TypePath, Compiled(StrX))>>
\* every effect carries the place of its rule, so that no two effects of a
\* tree are equal
KindEffects(kind, at) ==
    CASE kind = "loader" ->
            <<Effect("use", [at |-> at, k |-> "first"]),
              [t |-> "function", name |-> "loaders", at |-> at],
              Effect("use", [at |-> at, k |-> "last"])>>
      [] kind = "typed" -> <<Effect("use", [at |-> at, k |-> "only"])>>
      [] kind = "guard" -> <<>>

CompiledRule(conditions, effs, rs, os) ==
    [conditions |-> conditions, effects |-> effs, rules |-> rs, oneOf |-> os]

\* the compiled rules of exactly n rules in all, rooted at `at`; the lists
\* of compiled rules of n rules in all whose first rule is the i-th child
\* of group g of `at`
RECURSIVE RuleTrees(_, _)
RECURSIVE RuleLists(_, _, _, _)
RuleGroups(n, at, g) ==
    IF n = 0 THEN {None} ELSE {Some(l) : l \in RuleLists(n, at, g, 1)}
RuleTrees(n, at) ==
    UNION {
        {CompiledRule(KindConditions(kind), KindEffects(kind, at), rs, os) :
            rs \in RuleGroups(a, at, "rules"),
            os \in RuleGroups(n - 1 - a, at, "oneOf")} :
        kind \in Kinds, a \in 0..(n - 1)}
RuleLists(n, at, g, i) ==
    IF n = 0
    THEN {<<>>}
    ELSE UNION {
        {<<r>> \o rest :
            r \in RuleTrees(m, Child(at, g, i)),
            rest \in RuleLists(n - m, at, g, i + 1)} :
        m \in 1..n}

\* the rule lists of the specification's examples, compiled with the stub
\* handlers: two sibling rules, a rules group and a oneOf group
StubTaps == <<"test", "use">>
Payload(name) == Str(<<name>>)
TestUse(test, use) == Obj(<<Entry("test", Str(<<test>>)), Entry("use", Payload(use))>>)
Use(use) == Obj(<<Entry("use", Payload(use))>>)
SiblingsExample == Arr(<<TestUse("a", "X"), TestUse("b", "Y")>>)
RulesExample == Arr(<<Obj(<<Entry("rules", Arr(<<TestUse("x", "A"), Use("B")>>))>>)>>)
OneOfExample == Arr(<<Obj(<<Entry("oneOf", Arr(<<TestUse("x", "A"), Use("B")>>))>>)>>)
ExampleRuleSets ==
    {compile(StubTaps, list).value.rules :
        list \in {SiblingsExample, RulesExample, OneOfExample}}

\* trees of four rules: a rule whose oneOf group has a first child without
\* effects that has one nested child, in its rules or its oneOf group, and
\* a second child with effects
NestedTree(root, g, nested, second) ==
    LET at0 == Child(<<>>, "ruleSet", 1)
        at1 == Child(at0, "oneOf", 1)
        at2 == Child(at0, "oneOf", 2)
        inner == <<CompiledRule(KindConditions(nested),
                                KindEffects(nested, Child(at1, g, 1)), None, None)>>
        first == CompiledRule(KindConditions("guard"), KindEffects("guard", at1),
                              IF g = "rules" THEN Some(inner) ELSE None,
                              IF g = "oneOf" THEN Some(inner) ELSE None)
        last == CompiledRule(KindConditions(second), KindEffects(second, at2),
                             None, None)
    IN  <<CompiledRule(KindConditions(root), KindEffects(root, at0),
                       None, Some(<<first, last>>))>>
NestedTrees ==
    {NestedTree(root, g, nested, second) :
        root \in {"loader", "guard"}, g \in {"rules", "oneOf"},
        nested \in {"typed", "guard"}, second \in {"loader", "typed"}}

CompiledRuleSets ==
    ExampleRuleSets
    \cup NestedTrees
    \cup UNION {RuleLists(n, <<>>, "ruleSet", 1) : n \in 1..MaxRules}

\* input records
DescriptionData ==
    {Undefined, Null, Str(<<"s">>), Arr(<<>>), Obj(<<>>),
     Obj(<<Entry("type", Undefined)>>), Obj(<<Entry("type", Null)>>),
     Obj(<<Entry("type", StrX)>>), Obj(<<Entry("type", Str(<<"y">>))>>)}
ResourceA == Str(<<"a", "/", "f">>)
ResourceB == Str(<<"b", "/", "f">>)
InputRecords ==
    {Obj(<<>>)}
    \cup {Obj(<<Entry("resource", r)>>) :
            r \in {Undefined, ResourceA, ResourceB, Str(<<"c", "/", "f">>), StrX}}
    \cup {Obj(<<Entry("resource", ResourceA), Entry("descriptionData", dd)>>) :
            dd \in DescriptionData}
    \cup {Obj(<<Entry("descriptionData", Obj(<<Entry("type", StrX)>>))>>),
          Obj(<<Entry("descriptionData", Obj(<<Entry("type", StrX)>>)),
                Entry("resource", Undefined)>>)}

Init ==
    /\ rules \in CompiledRuleSets
    /\ data = None /\ effects = None /\ log = None
    /\ lastIndex = 0 /\ calls = <<>>
    /\ condition = None /\ compiled = None /\ tested = None
    /\ ruleSet = None /\ plugins = None /\ ruleSetResult = None
    /\ ExternalsIdle

\* exec(d)
Exec ==
    \E d \in InputRecords :
        LET st == exec(rules, d, lastIndex)
        IN  /\ data = None
            /\ data' = Some(d)
            /\ effects' = Some(st.effects)
            /\ log' = st.log
            /\ lastIndex' = st.lastIndex
            /\ calls' = Append(calls, [data |-> d, effects |-> st.effects])
            /\ UNCHANGED <<rules, condVars, ruleVars, extVars>>

Next == Exec

Spec == Init /\ [][Next]_vars

(***************************************************************************)
(* Repeated calls of exec: the exec closure of one compiled tree is called *)
(* again and again, on any records in any order.  The rules of the tree    *)
(* test `resource`; where a rule was written with a RegExp that has the g  *)
(* flag, the closures of the tree share that RegExp object.                *)
(***************************************************************************)
ReG == RegExpG("a")
RepeatConditions ==
    {StrA, RegExp("^a"), ReG, Not(ReG), Arr(<<Str(<<"b">>), ReG>>),
     Obj(<<Entry("and", Arr(<<ReG, StrA>>))>>)}
RepeatRule(c, i) ==
    CompiledRule(<<RuleCondition(PropertyName("resource"), Compiled(c))>>,
                 KindEffects("typed", Child(<<>>, "ruleSet", i)), None, None)
RepeatRuleSets ==
    {<<RepeatRule(c, 1)>> : c \in RepeatConditions}
    \cup {<<RepeatRule(ReG, 1), RepeatRule(ReG, 2)>>}
RepeatRecords ==
    {Obj(<<>>)}
    \cup {Obj(<<Entry("resource", r)>>) : r \in {ResourceA, ResourceB, Str(<<"b", "a">>)}}

InitRepeat ==
    /\ rules \in RepeatRuleSets
    /\ data = None /\ effects = None /\ log = None
    /\ lastIndex = 0 /\ calls = <<>>
    /\ condition = None /\ compiled = None /\ tested = None
    /\ ruleSet = None /\ plugins = None /\ ruleSetResult = None
    /\ ExternalsIdle

\* exec(d), once more
ExecAgain ==
    \E d \in RepeatRecords :
        LET st == exec(rules, d, lastIndex)
        IN  /\ Len(calls) < MaxCalls
            /\ data' = Some(d)
            /\ effects' = Some(st.effects)
            /\ log' = st.log
            /\ lastIndex' = st.lastIndex
            /\ calls' = Append(calls, [data |-> d, effects |-> st.effects])
            /\ UNCHANGED <<rules, condVars, ruleVars, extVars>>

NextRepeat == ExecAgain

SpecRepeat == InitRepeat /\ [][NextRepeat]_vars

\* C13: any two exec calls made on the same compiled tree with an identical
\* input record, however many calls on whatever records lie between them,
\* returned the same effects in the same order, and no call has left the
\* compiled tree in another state than it found it: the RegExp object its
\* predicates hold has the lastIndex it had after compile.
C13_ExecPure ==
    /\ \A i, j \in 1..Len(calls) :
            calls[i].data = calls[j].data => calls[i].effects = calls[j].effects
    /\ lastIndex = 0

(***************************************************************************)
(* The rule compiler as a state machine: compile is called once on a raw   *)
(* rule list, with no handler tapped or with the stub handlers tapped.     *)
(***************************************************************************)
\* the entries of a raw rule other than `rules` and `oneOf`
RuleParts ==
    {<<>>,
     <<Entry("foo", Undefined)>>,
     <<Entry("bar", Null), Entry("baz", Undefined), Entry("foo", One)>>,
     <<Entry("test", StrA), Entry("use", Payload("X"))>>}

\* the raw rules without nested entries: a group is absent, empty or not an
\* array
LeafRules ==
    {Obj(part) : part \in RuleParts}
    \cup {Obj(<<Entry("rules", StrA)>>), Obj(<<Entry("oneOf", Null)>>),
          Obj(<<Entry("rules", Arr(<<>>)), Entry("oneOf", Undefined)>>),
          Obj(<<Entry("foo", One), Entry("oneOf", Str(<<"b">>))>>),
          Obj(<<Entry("rules", StrA), Entry("oneOf", Null)>>)}

\* the raw rule lists of exactly n entries in all, nested entries counted; an
\* entry is a rule or the falsy entry `false`
RECURSIVE RawLists(_)
RawGroups(n, key) ==
    IF n = 0 THEN {<<>>} ELSE {<<Entry(key, Arr(l))>> : l \in RawLists(n)}
RawRules(n) ==
    IF n = 1
    THEN LeafRules
    ELSE UNION {
        {Obj(part \o rs \o os) :
            part \in RuleParts,
            rs \in RawGroups(a, "rules"),
            os \in RawGroups(n - 1 - a, "oneOf")} :
        a \in 0..(n - 1)}
RawEntries(n) == IF n = 1 THEN RawRules(1) \cup {Bool(FALSE)} ELSE RawRules(n)
RawLists(n) ==
    IF n = 0
    THEN {<<>>}
    ELSE UNION {
        {<<r>> \o rest : r \in RawEntries(m), rest \in RawLists(n - m)} :
        m \in 1..n}

RawRuleSets == {Arr(l) : l \in UNION {RawLists(n) : n \in 0..MaxEntries}}

InitRule ==
    /\ ruleSet \in RawRuleSets
    /\ plugins \in {<<>>, StubTaps}
    /\ ruleSetResult = None
    /\ ExternalsIdle
    /\ condition = None /\ compiled = None /\ tested = None
    /\ rules = None /\ data = None /\ effects = None /\ log = None
    /\ lastIndex = 0 /\ calls = <<>>

\* compile(ruleSet), up to the construction of the exec closure
Compile ==
    /\ ruleSetResult = None
    /\ ruleSetResult' = Some(compile(plugins, ruleSet))
    /\ UNCHANGED <<ruleSet, plugins, condVars, execVars, extVars>>

NextRule == Compile

SpecRule == InitRule /\ [][NextRule]_vars

(***************************************************************************)
(* Properties of the rule compiler (SpecRule)                              *)
(***************************************************************************)
IsCompiledRuleSet == ruleSetResult # None
GroupKeys == {"rules", "oneOf"}
Tapped(taps) == {taps[i] : i \in 1..Len(taps)}

\* the keys of a raw rule with a defined value that neither a tapped handler
\* nor the compiler consumes, in key order
Remaining(rule, taps) ==
    LET Left(i) ==
            /\ rule.entries[i].value # Undefined
            /\ rule.entries[i].key \notin (GroupKeys \cup Tapped(taps))
        left == SelectSeq([i \in 1..Len(rule.entries) |-> i], Left)
    IN  [j \in 1..Len(left) |-> rule.entries[left[j]].key]

\* the rules nested in a raw rule through the groups that are arrays
NestedRules(rule) ==
    UNION {
        IF HasOwn(rule, key) /\ IsArray(Get(rule, key))
        THEN {Get(rule, key).items[i] : i \in {j \in 1..Len(Get(rule, key).items) :
                                                  ~Falsy(Get(rule, key).items[j])}}
        ELSE {} :
        key \in GroupKeys}
RECURSIVE RulesWithin(_)
RulesWithin(rule) == {rule} \cup UNION {RulesWithin(r) : r \in NestedRules(rule)}
TopRules == {ruleSet.items[i] : i \in {j \in 1..Len(ruleSet.items) :
                                          ~Falsy(ruleSet.items[j])}}
AllRules == UNION {RulesWithin(r) : r \in TopRules}

UnknownMessage(keys) ==
    "Compiling RuleSet failed: Properties " \o Join(keys) \o " are unknown"
NotArrayMessages ==
    {"Compiling RuleSet failed: Rule." \o key \o " must be an array of rules" :
        key \in GroupKeys}
\* every defined `rules` and `oneOf` of the rule is an array
GroupsAreArrays(rule) ==
    \A key \in GroupKeys :
        (HasOwn(rule, key) /\ Get(rule, key) # Undefined) => IsArray(Get(rule, key))

\* what is thrown names the remaining keys of a rule, all of them and in key
\* order, and so none whose value is undefined; nothing is returned while a
\* rule has a remaining key
ReportsRemaining ==
    IsCompiledRuleSet =>
    /\ ruleSetResult[1].ok => \A r \in AllRules : Remaining(r, plugins) = <<>>
    /\ ~ruleSetResult[1].ok =>
        \/ ruleSetResult[1].error.message \in NotArrayMessages
        \/ \E r \in AllRules :
              /\ Remaining(r, plugins) # <<>>
              /\ ruleSetResult[1].error.message = UnknownMessage(Remaining(r, plugins))
              /\ ruleSetResult[1].error.value = r
    /\ \A r \in TopRules :
          (r = ruleSet.items[1] /\ Remaining(r, plugins) # <<>>
              /\ \A n \in RulesWithin(r) :
                    GroupsAreArrays(n) /\ (n # r => Remaining(n, plugins) = <<>>))
          => /\ ~ruleSetResult[1].ok
             /\ ruleSetResult[1].error.message = UnknownMessage(Remaining(r, plugins))
             /\ ruleSetResult[1].error.path = "ruleSet[0]"

\* C10 as stated: what is thrown for unhandled keys names the remaining keys,
\* never one whose value is undefined, and with no handler tapped a rule list
\* compiles iff, at every nesting depth, the defined keys of every rule are
\* among rules and oneOf.
C10_UnknownProperties ==
    /\ ReportsRemaining
    /\ (IsCompiledRuleSet /\ plugins = <<>>) =>
            (ruleSetResult[1].ok <=> \A r \in AllRules : Remaining(r, <<>>) = <<>>)

\* C10 as amended: the same, and with no handler tapped a rule list compiles
\* iff, at every nesting depth, the defined keys of every rule are among
\* rules and oneOf and every defined rules or oneOf value is an array.
C10_UnknownPropertiesAmended ==
    /\ ReportsRemaining
    /\ (IsCompiledRuleSet /\ plugins = <<>>) =>
            (ruleSetResult[1].ok <=>
                \A r \in AllRules : Remaining(r, <<>>) = <<>> /\ GroupsAreArrays(r))

\* with no handler tapped, a nested rule with two defined unknown keys and one
\* undefined one has been rejected by the names of the two
C10_Witness ==
    /\ IsCompiledRuleSet /\ plugins = <<>> /\ ~ruleSetResult[1].ok
    /\ ruleSetResult[1].error.message = UnknownMessage(<<"bar", "foo">>)
    /\ ruleSetResult[1].error.path = "ruleSet[0].oneOf[0]"

\* compileRule on one rule of the list, with the handlers of the state
Raised(rule) == compileRule(plugins, "rule", rule, <<>>)
MustBeArray(key) ==
    IF key = "rules"
    THEN "Compiling RuleSet failed: Rule.rules must be an array of rules"
    ELSE "Compiling RuleSet failed: Rule.oneOf must be an array of rules"
RaisedBy(rule, key) ==
    /\ ~Raised(rule).ok
    /\ Raised(rule).error.message = MustBeArray(key)
    /\ Raised(rule).error.path = "rule"
    /\ Raised(rule).error.value = Prop(rule, key)
\* key is still unhandled after the handlers ran, and its value is no array
UnhandledNotArray(rule, key) ==
    /\ HasOwn(rule, key)
    /\ Get(rule, key) # Undefined
    /\ key \notin Tapped(plugins)
    /\ ~IsArray(Get(rule, key))
\* the `rules` key of the rule is absent, undefined, or an array that compiles
RulesCompile(rule) ==
    LET only == Obj(<<Entry("rules", Prop(rule, "rules"))>>)
    IN  compileRule(plugins, "rule", only, <<>>).ok
\* a rule anywhere in the list with a group that is no array fails compile as
\* a whole: what compile gives is the error, not rules and references
AbortsCompile ==
    IsCompiledRuleSet =>
    /\ (\E r \in AllRules : \E key \in GroupKeys : UnhandledNotArray(r, key))
            => ~ruleSetResult[1].ok
    /\ \A key \in GroupKeys :
        (Len(ruleSet.items) = 1 /\ ~Falsy(ruleSet.items[1])
            /\ RaisedBy(ruleSet.items[1], key))
        => /\ ~ruleSetResult[1].ok
           /\ ruleSetResult[1].error.message = Raised(ruleSet.items[1]).error.message
           /\ ruleSetResult[1].error.value = Raised(ruleSet.items[1]).error.value

\* C11 as stated: compileRule on a rule whose rules (oneOf) is still
\* unhandled after the handlers ran and is no array raises "Rule.rules
\* (Rule.oneOf) must be an array of rules" for that value, and such a rule
\* anywhere in the list aborts compile as a whole.
C11_GroupsMustBeArrays ==
    /\ AbortsCompile
    /\ IsCompiledRuleSet =>
        \A r \in AllRules : \A key \in GroupKeys :
            UnhandledNotArray(r, key) => RaisedBy(r, key)

\* C11 as amended: the same, the error for oneOf being raised when compiling
\* the rule's rules key raised none.
C11_GroupsMustBeArraysAmended ==
    /\ AbortsCompile
    /\ IsCompiledRuleSet =>
        \A r \in AllRules :
            /\ UnhandledNotArray(r, "rules") => RaisedBy(r, "rules")
            /\ (UnhandledNotArray(r, "oneOf") /\ RulesCompile(r))
                    => RaisedBy(r, "oneOf")
            /\ (UnhandledNotArray(r, "oneOf") /\ ~RulesCompile(r))
                    => ~Raised(r).ok /\ ~RaisedBy(r, "oneOf")

\* a nested rule whose oneOf is a string, next to a defined unknown key, was
\* rejected for its oneOf and compile gave the error
C11_Witness ==
    /\ IsCompiledRuleSet /\ ~ruleSetResult[1].ok
    /\ ruleSetResult[1].error.message = MustBeArray("oneOf")
    /\ ruleSetResult[1].error.value = Str(<<"b">>)
    /\ \E r \in AllRules : r \notin TopRules /\ UnhandledNotArray(r, "oneOf")

\* the positions of the raw rule list that hold a rule, in order, and those
\* of them whose rule does not compile
Positions ==
    LET Holds(i) == ~Falsy(ruleSet.items[i])
    IN  SelectSeq([i \in 1..Len(ruleSet.items) |-> i], Holds)
CompiledAt(i) == compileRule(plugins, Index("ruleSet", i), ruleSet.items[i], <<>>)
Failed == {i \in 1..Len(ruleSet.items) : ~Falsy(ruleSet.items[i]) /\ ~CompiledAt(i).ok}

\* C12: what compile returns holds one compiled rule for every entry of the
\* raw list that is not falsy, in the order of the list, each the compiled
\* form of its entry; and what compile throws is the error of the first
\* entry that does not compile, with the path that entry has at the index of
\* its position in the raw list.
C12_RawIndex ==
    IsCompiledRuleSet =>
    IF Failed = {}
    THEN /\ ruleSetResult[1].ok
         /\ ruleSetResult[1].value.rules =
                [j \in 1..Len(Positions) |-> CompiledAt(Positions[j]).value.rule]
    ELSE /\ ~ruleSetResult[1].ok
         /\ ruleSetResult[1].error =
                CompiledAt(CHOOSE i \in Failed : \A j \in Failed : i <= j).error

(***************************************************************************)
(* Properties of the executor, stated on a finished exec call: its input   *)
(* record, the effect list it returned and the log of what it did.         *)
(***************************************************************************)
Done == data # None
Events == 1..Len(log)
Last(s) == s[Len(s)]
Front(s) == SubSeq(s, 1, Len(s) - 1)
Min(S) == CHOOSE k \in S : \A m \in S : k <= m

RECURSIVE Flatten(_)
Flatten(ss) == IF ss = <<>> THEN <<>> ELSE Head(ss) \o Flatten(Tail(ss))

\* the children of group g of a compiled rule
GroupOf(rule, g) == IF rule[g] = None THEN <<>> ELSE rule[g][1]

\* the compiled rule at a place of the tree
RECURSIVE RuleAt(_)
RuleAt(at) ==
    IF Len(at) = 1
    THEN rules[at[1].i]
    ELSE GroupOf(RuleAt(Front(at)), Last(at).g)[Last(at).i]

\* place `at` is `root` or lies below it; place `at` lies in group g of `parent`
Under(at, root) == Len(at) >= Len(root) /\ SubSeq(at, 1, Len(root)) = root
Within(at, parent, g) ==
    /\ Len(at) > Len(parent)
    /\ Under(at, parent)
    /\ at[Len(parent) + 1].g = g

IsPush(e) == e.op = "push"
Pushes(l) == LET p == SelectSeq(l, IsPush) IN [i \in 1..Len(p) |-> p[i].arg]
IsCall(e, at) == e.op = "execRule" /\ e.at = at
IsReturn(e, at, matched) == e.op = "return" /\ e.at = at /\ e.arg = matched
InOneOf(e) == Len(e.at) > 1 /\ Last(e.at).g = "oneOf"

\* C1: when exec has returned, the list it returned is what was pushed, and
\* for every rule that matched and has a non-empty oneOf group the first
\* child of the group was executed; a later child was executed only right
\* after its predecessor returned false; after a child returned true nothing
\* more happened in the group (no execRule, no predicate, no generator, no
\* push of a later sibling or of anything below one); after a child returned
\* false the next child, if there is one, was executed next; and when the
\* last child returned false nothing was pushed from within the group.
C1_OneOfShortCircuit ==
    Done =>
    /\ effects[1] = Pushes(log)
    /\ \A i \in Events :
        LET e == log[i]
            parent == Front(e.at)
            n == Last(e.at).i
        IN  /\ (e.op = "return" /\ e.arg /\ GroupOf(RuleAt(e.at), "oneOf") # <<>>)
                => \E j \in 1..(i - 1) : IsCall(log[j], Child(e.at, "oneOf", 1))
            /\ (e.op = "execRule" /\ InOneOf(e) /\ n > 1)
                => IsReturn(log[i - 1], Child(parent, "oneOf", n - 1), FALSE)
            /\ (e.op = "return" /\ InOneOf(e))
                => IF e.arg
                   THEN \A j \in (i + 1)..Len(log) :
                            ~Within(log[j].at, parent, "oneOf")
                   ELSE IF n < Len(GroupOf(RuleAt(parent), "oneOf"))
                   THEN IsCall(log[i + 1], Child(parent, "oneOf", n + 1))
                   ELSE \A j \in Events :
                            IsPush(log[j]) => ~Within(log[j].at, parent, "oneOf")

\* the first child of a oneOf group of two returned true after pushing an
\* effect, and the second child declares effects
C1_Witness ==
    /\ Done
    /\ \E i \in Events :
        LET e == log[i]
            group == GroupOf(RuleAt(Front(e.at)), "oneOf")
        IN  /\ e.op = "return" /\ e.arg /\ InOneOf(e) /\ Last(e.at).i = 1
            /\ Len(group) = 2 /\ group[2].effects # <<>>
            /\ \E j \in 1..i : IsPush(log[j]) /\ log[j].at = e.at
            /\ effects[1] # <<>>

\* the value read for a condition, and whether the condition passes on it
Value(c) == resolve(data[1], c.property)
Passes(c) ==
    IF Value(c) # Undefined THEN Call(c.fn, Value(c)) ELSE c.matchWhenEmpty
Failing(rule) == {k \in 1..Len(rule.conditions) : ~Passes(rule.conditions[k])}
Matches(rule) == Failing(rule) = {}
\* how many conditions of a rule are checked: up to the first that fails
Checked(rule) ==
    IF Matches(rule) THEN Len(rule.conditions) ELSE Min(Failing(rule))
\* event e is the check of the k-th condition of the rule at `at`
Settles(e, at, k) ==
    LET c == RuleAt(at).conditions[k]
    IN  /\ e.at = at
        /\ IF Value(c) # Undefined
           THEN e.op = "fn" /\ e.arg = [k |-> k, value |-> Value(c)]
           ELSE e.op = "matchWhenEmpty" /\ e.arg = [k |-> k]

\* C2: every execRule call is followed in the log by the checks of the
\* rule's conditions in declared order, up to and including the first that
\* does not pass (predicate false on a defined value, or matchWhenEmpty
\* false on an absent one), each defined value handed to its predicate and
\* each absent one settled by matchWhenEmpty; and the very next thing is the
\* return of false exactly when some condition did not pass, so nothing was
\* invoked, pushed or executed in between.
C2_ConditionsInOrder ==
    Done =>
    \A i \in Events :
        log[i].op = "execRule" =>
        LET at == log[i].at
            n == Checked(RuleAt(at))
        IN  /\ \A k \in 1..n : Settles(log[i + k], at, k)
            /\ IsReturn(log[i + n + 1], at, FALSE) <=> ~Matches(RuleAt(at))

\* a rule with an effect and children passed its first condition on an
\* absent value and failed its second on a defined one
C2_Witness ==
    /\ Done
    /\ \E i \in Events :
        /\ log[i].op = "execRule"
        /\ LET rule == RuleAt(log[i].at)
           IN  /\ Failing(rule) = {2}
               /\ rule.effects # <<>>
               /\ rule.rules # None \/ rule.oneOf # None
               /\ log[i + 1].op = "matchWhenEmpty"
               /\ log[i + 2].op = "fn"
               /\ IsReturn(log[i + 3], log[i].at, FALSE)

\* what a rule's own declared effects append for the input record
Own(rule) ==
    Flatten([k \in 1..Len(rule.effects) |->
                IF TypeOf(rule.effects[k]) = "function"
                THEN CallGenerator(rule.effects[k], data[1])
                ELSE <<rule.effects[k]>>])

\* what a rule appends for the input record: nothing when it does not match;
\* else its own effects, then what the children of its rules group append,
\* then what the first matching child of its oneOf group appends
RECURSIVE Contribution(_)
Contributions(children) ==
    Flatten([i \in 1..Len(children) |-> Contribution(children[i])])
FirstMatch(children) ==
    LET m == {i \in 1..Len(children) : Matches(children[i])}
    IN  IF m = {} THEN <<>> ELSE Contribution(children[Min(m)])
Contribution(rule) ==
    IF ~Matches(rule)
    THEN <<>>
    ELSE Own(rule) \o Contributions(GroupOf(rule, "rules"))
                   \o FirstMatch(GroupOf(rule, "oneOf"))

\* the part of the returned list appended between the i-th event of the log,
\* an execRule call, and the return of that call
PushesBefore(i) == Len(Pushes(SubSeq(log, 1, i)))
ReturnOf(i) ==
    CHOOSE j \in i..Len(log) : log[j].op = "return" /\ log[j].at = log[i].at
Appended(i) ==
    SubSeq(effects[1], PushesBefore(i) + 1, PushesBefore(ReturnOf(i)))

\* C3: the list exec returned is the concatenation, in declaration order, of
\* what each top-level rule appends, and the part of it appended during any
\* execRule call is exactly that rule's own effects in declaration order
\* (a generator giving every element it returned, in order), then what the
\* children of its rules group append, in order, then what its oneOf group
\* appends; nothing is reordered and nothing dropped.
C3_EffectOrder ==
    Done =>
    /\ effects[1] = Contributions(rules)
    /\ \A i \in Events :
        log[i].op = "execRule" => Appended(i) = Contribution(RuleAt(log[i].at))

\* a top-level rule with a generator that returned two effects, a rules
\* group and a oneOf group, all three contributing
C3_Witness ==
    /\ Done
    /\ Len(rules) = 1
    /\ Len(Own(rules[1])) = 4
    /\ Contributions(GroupOf(rules[1], "rules")) # <<>>
    /\ FirstMatch(GroupOf(rules[1], "oneOf")) # <<>>
    /\ Len(effects[1]) = 6

\* the execRule calls made on the children of group g of `parent`, in order
Calls(parent, g) ==
    LET IsChildCall(e) ==
            e.op = "execRule" /\ Len(e.at) = Len(parent) + 1 /\ Within(e.at, parent, g)
    IN  SelectSeq(log, IsChildCall)
AllCalled(parent, g, children) ==
    Calls(parent, g) =
        [i \in 1..Len(children) |-> Event("execRule", Child(parent, g, i), None)]
\* what was pushed from within group g of `parent`
PushedWithin(parent, g) ==
    LET IsWithin(e) == IsPush(e) /\ Within(e.at, parent, g)
    IN  Pushes(SelectSeq(log, IsWithin))

Resource == Prop(data[1], "resource")
CompiledExample(list) == compile(StubTaps, list).value.rules
Used(name) == Effect("use", Payload(name))

\* C4: exec called execRule once on every top-level rule, in declaration
\* order, and every rule that matched called it once on every child of its
\* rules group, in declaration order; what the group pushed is the
\* concatenation of what each child appends, and the list exec returned is
\* the concatenation of what each top-level rule appends.  For the rules
\* [{test: "a", use: X}, {test: "b", use: Y}] the list is [X] for resource
\* "a/f", [Y] for "b/f" and [] for "c/f"; for
\* [{rules: [{test: "x", use: A}, {use: B}]}] it is [A, B] for resource "x".
C4_AllMatch ==
    Done =>
    /\ AllCalled(<<>>, "ruleSet", rules)
    /\ effects[1] = Contributions(rules)
    /\ \A i \in Events :
        (log[i].op = "return" /\ log[i].arg) =>
            LET children == GroupOf(RuleAt(log[i].at), "rules")
            IN  /\ AllCalled(log[i].at, "rules", children)
                /\ PushedWithin(log[i].at, "rules") = Contributions(children)
    /\ rules = CompiledExample(SiblingsExample) =>
        /\ Resource = ResourceA => effects[1] = <<Used("X")>>
        /\ Resource = ResourceB => effects[1] = <<Used("Y")>>
        /\ Resource = Str(<<"c", "/", "f">>) => effects[1] = <<>>
    /\ (rules = CompiledExample(RulesExample) /\ Resource = StrX) =>
        effects[1] = <<Used("A"), Used("B")>>

\* the rules-group example was executed on resource "x", both children
\* matching
C4_Witness ==
    /\ Done
    /\ rules = CompiledExample(RulesExample)
    /\ Resource = StrX
    /\ effects[1] = <<Used("A"), Used("B")>>
    /\ \E i, j \in Events :
        /\ i < j
        /\ IsReturn(log[i], <<[g |-> "ruleSet", i |-> 1], [g |-> "rules", i |-> 1]>>, TRUE)
        /\ IsCall(log[j], <<[g |-> "ruleSet", i |-> 1], [g |-> "rules", i |-> 2]>>)

\* the value at the end of a property path: there is one when every segment
\* is an own key of a mapping
RECURSIVE Reach(_, _)
Reach(v, p) ==
    IF p = <<>>
    THEN Some(v)
    ELSE IF v.t # "object"
    THEN None
    ELSE LET own == {i \in 1..Len(v.entries) : v.entries[i].key = Head(p)}
         IN  IF own = {}
             THEN None
             ELSE Reach(v.entries[Min(own)].value, Tail(p))
Terminal(c) == Reach(data[1], c.property.items)
Present(c) == Terminal(c) # None /\ Terminal(c)[1] # Undefined

\* C5: whenever a condition on a multi-segment path was checked, its
\* predicate was applied exactly when every segment of the path is an own
\* key of a mapping and the value at the end is not undefined, and it was
\* applied to that value; the rule went on past the condition exactly when
\* the predicate holds of that value or, the value being absent, the
\* condition's matchWhenEmpty is true.
C5_PropertyPath ==
    Done =>
    \A i \in Events :
        LET e == log[i]
            c == RuleAt(e.at).conditions[e.arg.k]
        IN  (e.op \in {"fn", "matchWhenEmpty"} /\ IsArray(c.property)) =>
            /\ e.op = "fn" <=> Present(c)
            /\ e.op = "fn" => e.arg.value = Terminal(c)[1]
            /\ ~IsReturn(log[i + 1], e.at, FALSE)
                <=> IF Present(c) THEN Call(c.fn, Terminal(c)[1])
                                  ELSE c.matchWhenEmpty

\* descriptionData is a string: one condition on descriptionData.type let its
\* rule go on by matchWhenEmpty and another failed its rule by it
C5_Witness ==
    /\ Done
    /\ HasOwn(data[1], "descriptionData")
    /\ Get(data[1], "descriptionData").t = "string"
    /\ \E i, j \in Events :
        /\ log[i].op = "matchWhenEmpty" /\ log[j].op = "matchWhenEmpty"
        /\ LET ci == RuleAt(log[i].at).conditions[log[i].arg.k]
               cj == RuleAt(log[j].at).conditions[log[j].arg.k]
           IN  /\ IsArray(ci.property) /\ IsArray(cj.property)
               /\ ci.matchWhenEmpty /\ ~cj.matchWhenEmpty
               /\ ~IsReturn(log[i + 1], log[i].at, FALSE)
               /\ IsReturn(log[j + 1], log[j].at, FALSE)

\* C14: every execRule call returned true exactly when all of the rule's own
\* conditions pass on the input record, whatever its groups did; and once a
\* child of a oneOf group whose own conditions pass was executed, nothing
\* was executed, invoked or pushed at or below a later sibling of the group,
\* whether or not the child or anything below it pushed an effect.
C14_ReturnsOwnConditions ==
    Done =>
    \A i \in Events :
        log[i].op = "execRule" =>
        LET at == log[i].at
        IN  /\ log[ReturnOf(i)].arg = Matches(RuleAt(at))
            /\ (InOneOf(log[i]) /\ Matches(RuleAt(at))) =>
                \A j \in Events :
                    Within(log[j].at, Front(at), "oneOf")
                        => log[j].at[Len(at)].i <= Last(at).i

\* the first child of a oneOf group passed its own conditions, has no effect
\* and a nested child that returned false; the second child, which has
\* effects and whose conditions pass, was not executed and the group pushed
\* nothing
C14_Witness ==
    /\ Done
    /\ \E i \in Events :
        LET at == log[i].at
            parent == Front(at)
            group == GroupOf(RuleAt(parent), "oneOf")
        IN  /\ log[i].op = "execRule" /\ InOneOf(log[i]) /\ Last(at).i = 1
            /\ IsReturn(log[ReturnOf(i)], at, TRUE)
            /\ RuleAt(at).effects = <<>>
            /\ \E g \in {"rules", "oneOf"} :
                /\ Len(GroupOf(RuleAt(at), g)) = 1
                /\ \E j \in Events : IsReturn(log[j], Child(at, g, 1), FALSE)
            /\ Len(group) = 2 /\ group[2].effects # <<>> /\ Matches(group[2])
            /\ PushedWithin(parent, "oneOf") = <<>>

(***************************************************************************)
(* ExternalModuleFactoryPlugin: the handler tapped on hooks.factorize, for *)
(* one request.  A callback is a record naming its code and holding what   *)
(* it captured; the variables i and asyncFlag that closures share live in  *)
(* `arrays` and `asyncFlags` and are captured by their index.  The state   *)
(* the handlers work on is st = [arrays, asyncFlags, pending, invoked,     *)
(* consulted].                                                             *)
(***************************************************************************)
\* dependency.request, and the same as a property key
Request == StrA
RequestKey == "a"
GlobalType == Str(<<"v", "a", "r">>)

\* the arguments of a callback: (err, value, type); for the request's
\* callback and handleExternalsAndCallback the value is the module
Args(err, value, type) == [err |-> err, value |-> value, type |-> type]
NoArgs == Args(Undefined, Undefined, Undefined)

\* the request's callback; handleExternalsAndCallback of the call of next
\* with asyncFlag n, for the array a; cb wrapped around a callback
FinalCallback == [c |-> "callback"]
ArrayCallback(a, n) == [c |-> "handleExternalsAndCallback", array |-> a, flag |-> n]
FunctionCallback(callback) == [c |-> "cb", callback |-> callback]

\* new ExternalModule(externalConfig, resolvedType, request, dependencyMeta)
\* for a plain dependency and a value without a type prefix
ExternalModule(externalConfig, type) ==
    [t |-> "object", request |-> externalConfig, externalType |-> type,
     userRequest |-> Request, dependencyMeta |-> Undefined]

\* an externals function with two parameters or, deprecated, three: it
\* answers by calling its callback before it returns ("callback"), by
\* calling it later ("later") or by returning a promise ("promise"), with an
\* error or with a value and type
ExternalsFunction(length, answers, args) ==
    [t |-> "function", length |-> length, answers |-> answers, args |-> args]

\* resolveLayer for an object without byLayer
resolveLayer(obj, layer) == obj

RECURSIVE invoke(_, _, _)
RECURSIVE next(_, _)
RECURSIVE loop(_, _, _)
RECURSIVE handleExternals(_, _, _, _)

\* UNSPECIFIED_EXTERNAL_TYPE_REGEXP = /^[a-z0-9-]+ /
TypeChars ==
    {"a", "b", "c", "d", "e", "f", "g", "h", "i", "j", "k", "l", "m", "n", "o",
     "p", "q", "r", "s", "t", "u", "v", "w", "x", "y", "z", "0", "1", "2", "3",
     "4", "5", "6", "7", "8", "9", "-"}

\* externalConfig.indexOf(" "), counted from 1; 0 when there is none
IndexOfSpace(s) ==
    IF \E i \in 1..Len(s) : s[i] = " "
    THEN Min({i \in 1..Len(s) : s[i] = " "})
    ELSE 0

HasTypePrefix(v) ==
    /\ TypeOf(v) = "string"
    /\ IndexOfSpace(v.s) > 1
    /\ \A i \in 1..(IndexOfSpace(v.s) - 1) : v.s[i] \in TypeChars

TypePrefix(v) == Str(SubSeq(v.s, 1, IndexOfSpace(v.s) - 1))
AfterPrefix(v) == Str(SubSeq(v.s, IndexOfSpace(v.s) + 1, Len(v.s)))

handleExternal(value, type, callback, st) ==
    IF value = Bool(FALSE)
    THEN invoke(callback, NoArgs, st)
    ELSE LET given == IF value = Bool(TRUE) THEN Request ELSE value
             inString == type = Undefined /\ HasTypePrefix(given)
             inArray == /\ type = Undefined
                        /\ ~HasTypePrefix(given)
                        /\ IsArray(given)
                        /\ Len(given.items) > 0
                        /\ HasTypePrefix(given.items[1])
             parsedType == IF inString THEN TypePrefix(given)
                           ELSE IF inArray THEN TypePrefix(given.items[1])
                           ELSE type
             externalConfig ==
                 IF inString THEN AfterPrefix(given)
                 ELSE IF inArray
                 THEN Arr(<<AfterPrefix(given.items[1])>> \o Tail(given.items))
                 ELSE given
             resolvedType == IF Falsy(parsedType) THEN GlobalType ELSE parsedType
         IN  invoke(callback,
                    Args(Null, ExternalModule(externalConfig, resolvedType), Undefined),
                    st)

leavesToLoopAlways(asyncFlag) == TRUE
\* whether handleExternalsAndCallback, called without error and module,
\* leaves the next item to the loop that is running (`if (asyncFlag)`)
leavesToLoop(asyncFlag) == asyncFlag

\* a callback called with arguments
invoke(callback, args, st) ==
    CASE callback.c = "callback" ->
            [st EXCEPT !.invoked = Append(@, args)]
      [] callback.c = "handleExternalsAndCallback" ->
            IF ~Falsy(args.err)
            THEN invoke(st.arrays[callback.array].callback,
                        Args(args.err, Undefined, Undefined), st)
            ELSE IF Falsy(args.value)
            THEN IF leavesToLoop(st.asyncFlags[callback.flag])
                 THEN [st EXCEPT !.asyncFlags[callback.flag] = FALSE]
                 ELSE next(callback.array, st)
            ELSE invoke(st.arrays[callback.array].callback,
                        Args(Null, args.value, Undefined), st)
      [] callback.c = "cb" ->
            IF ~Falsy(args.err)
            THEN invoke(callback.callback, Args(args.err, Undefined, Undefined), st)
            ELSE IF args.value # Undefined
            THEN handleExternal(args.value, args.type, callback.callback, st)
            ELSE invoke(callback.callback, NoArgs, st)

\* next() for the array a: a new asyncFlag, and the do-while loop
next(a, st) ==
    loop(a, Len(st.asyncFlags) + 1,
         [st EXCEPT !.asyncFlags = Append(@, FALSE)])

\* one round of the do-while loop of the call of next with asyncFlag n
loop(a, n, st) ==
    LET raised == [st EXCEPT !.asyncFlags[n] = TRUE]
        array == st.arrays[a]
    IN  IF array.i >= Len(array.items)
        THEN invoke(array.callback, NoArgs, raised)
        ELSE LET after == handleExternals(array.items[array.i + 1],
                                          Append(array.path, array.i + 1),
                                          ArrayCallback(a, n),
                                          [raised EXCEPT !.arrays[a].i = @ + 1])
             IN  IF ~after.asyncFlags[n]
                 THEN loop(a, n, after)
                 ELSE [after EXCEPT !.asyncFlags[n] = FALSE]

\* handleExternals(externals, callback), externals being found at `path` of
\* the configuration
handleExternals(ext, path, callback, st0) ==
    LET st == [st0 EXCEPT !.consulted = Append(@, path)]
    IN  IF TypeOf(ext) = "string"
        THEN IF ext = Request
             THEN handleExternal(Request, Undefined, callback, st)
             ELSE invoke(callback, NoArgs, st)
        ELSE IF IsArray(ext)
        THEN next(Len(st.arrays) + 1,
                  [st EXCEPT !.arrays =
                      Append(@, [items |-> ext.items, path |-> path,
                                 callback |-> callback, i |-> 0])])
        ELSE IF ext.t = "regexp"
        THEN IF RegExpTest(ext, Request.s)
             THEN handleExternal(Request, Undefined, callback, st)
             ELSE invoke(callback, NoArgs, st)
        ELSE IF TypeOf(ext) = "function"
        THEN LET cb == FunctionCallback(callback)
                 settled == IF ~Falsy(ext.args.err)
                            THEN Args(ext.args.err, Undefined, Undefined)
                            ELSE Args(Null, ext.args.value, Undefined)
             IN  IF ext.answers = "callback"
                 THEN invoke(cb, ext.args, st)
                 ELSE IF ext.answers = "later"
                 THEN [st EXCEPT !.pending = @ \cup {[callback |-> cb, args |-> ext.args]}]
                 ELSE IF ext.length = 3
                 THEN st
                 ELSE [st EXCEPT !.pending = @ \cup {[callback |-> cb, args |-> settled]}]
        ELSE LET resolvedExternals == resolveLayer(ext, Undefined)
             IN  IF HasOwn(resolvedExternals, RequestKey)
                 THEN handleExternal(Get(resolvedExternals, RequestKey),
                                     Undefined, callback, st)
                 ELSE invoke(callback, NoArgs, st)

(***************************************************************************)
(* The externals configurations enumerated, and the factorize hook.        *)
(***************************************************************************)
StrB == Str(<<"b">>)
TypedB == Str(<<"c", " ", "b">>)
ExternalsError == [t |-> "object", message |-> "externals"]

\* what an externals function answers with: an error, an external value,
\* or nothing
Answers ==
    {Args(ExternalsError, Undefined, Undefined),
     Args(Null, StrB, Undefined),
     Args(Null, Undefined, Undefined)}

ExternalsFunctions ==
    {ExternalsFunction(2, answers, args) :
        answers \in {"callback", "later", "promise"}, args \in Answers}
    \cup {ExternalsFunction(3, "callback", Args(Null, StrB, StrB))}

ExternalItems ==
    {StrA, StrX, RegExp("a"),
     Obj(<<Entry("a", Bool(FALSE))>>),
     Obj(<<Entry("x", StrB), Entry("a", TypedB)>>)}
    \cup ExternalsFunctions

RECURSIVE ExternalsOfSize(_)
RECURSIVE ItemsOfSize(_)

\* the arrays of n items, the array counted with its members, whose first
\* member has k of them
ArraysOfSize(n, k) ==
    {Arr(<<first>> \o rest) : first \in ExternalsOfSize(k),
                              rest \in ItemsOfSize(n - 1 - k)}

\* the configurations of n items
ExternalsOfSize(n) ==
    IF n = 1
    THEN ExternalItems \cup {Arr(<<>>)}
    ELSE UNION {ArraysOfSize(n, k) : k \in 1..(n - 1)}

\* the item lists whose items have n items together
ItemsOfSize(n) ==
    IF n = 0
    THEN {<<>>}
    ELSE {array.items : array \in ExternalsOfSize(n + 1)}

InitExternals ==
    /\ condition = None /\ compiled = None /\ tested = None
    /\ ruleSet = None /\ plugins = None /\ ruleSetResult = None
    /\ rules = None /\ data = None /\ effects = None /\ log = None
    /\ lastIndex = 0 /\ calls = <<>>
    /\ \/ externals \in ExternalsOfSize(1)
       \/ \E n \in 2..MaxExternals : \E k \in 1..(n - 1) :
                externals \in ArraysOfSize(n, k)
    /\ factorizing = FALSE
    /\ arrays = <<>> /\ asyncFlags = <<>>
    /\ pending = {} /\ invoked = <<>> /\ consulted = <<>>

PluginState ==
    [arrays |-> arrays, asyncFlags |-> asyncFlags, pending |-> pending,
     invoked |-> invoked, consulted |-> consulted]

Becomes(st) ==
    /\ arrays' = st.arrays
    /\ asyncFlags' = st.asyncFlags
    /\ pending' = st.pending
    /\ invoked' = st.invoked
    /\ consulted' = st.consulted

\* the handler tapped on hooks.factorize: handleExternals(this.externals,
\* callback)
Factorize ==
    /\ ~factorizing
    /\ factorizing' = TRUE
    /\ Becomes(handleExternals(externals, <<>>, FinalCallback, PluginState))
    /\ UNCHANGED <<externals, condVars, ruleVars, execVars>>

\* an externals function calls its callback after it returned, or the
\* promise it returned settles
Answer ==
    /\ \E p \in pending :
            Becomes(invoke(p.callback, p.args,
                           [PluginState EXCEPT !.pending = @ \ {p}]))
    /\ UNCHANGED <<externals, factorizing, condVars, ruleVars, execVars>>

NextExternals == Factorize \/ Answer

SpecExternals == InitExternals /\ [][NextExternals]_vars

(***************************************************************************)
(* Properties of the factorize handler.                                    *)
(***************************************************************************)
\* the item of the configuration found at a path
RECURSIVE ItemAt(_, _)
ItemAt(ext, path) ==
    IF path = <<>> THEN ext ELSE ItemAt(ext.items[path[1]], Tail(path))

\* what an item comes to, whenever and however it answers: "error",
\* "module" or "none"
RECURSIVE Yield(_)
RECURSIVE FirstYield(_, _)
Yield(ext) ==
    IF IsArray(ext) THEN FirstYield(ext.items, 1)
    ELSE IF TypeOf(ext) = "string"
    THEN IF ext = Request THEN "module" ELSE "none"
    ELSE IF ext.t = "regexp"
    THEN IF RegExpTest(ext, Request.s) THEN "module" ELSE "none"
    ELSE IF TypeOf(ext) = "function"
    THEN IF ext.args.err \notin {Null, Undefined} THEN "error"
         ELSE IF ext.args.value = Undefined THEN "none" ELSE "module"
    ELSE IF HasOwn(ext, RequestKey) /\ Get(ext, RequestKey) # Bool(FALSE)
         THEN "module" ELSE "none"

FirstYield(items, i) ==
    IF i > Len(items) THEN "none"
    ELSE IF Yield(items[i]) # "none" THEN Yield(items[i])
    ELSE FirstYield(items, i + 1)

\* what the request's callback was called with, as a yield
Called(args) ==
    IF args.err \notin {Null, Undefined} THEN "error"
    ELSE IF args.value = Undefined THEN "none"
    ELSE "module"

IsConsulted(path) == \E k \in 1..Len(consulted) : consulted[k] = path

\* the items that have to be consulted: the configuration, and each member
\* of a consulted array whose earlier members all came to nothing
Due(path) ==
    \A n \in 1..Len(path) :
        \A j \in 1..(path[n] - 1) :
            Yield(ItemAt(externals, Append(SubSeq(path, 1, n - 1), j))) = "none"

\* the handler has nothing left to wait for
Settled == factorizing /\ pending = {}

\* the item consulted next after the one at path p: its first member, or
\* the next member of an array it lies in
Follows(p, q) ==
    \/ q = Append(p, 1)
    \/ \E n \in 1..Len(p) : q = Append(SubSeq(p, 1, n - 1), p[n] + 1)

\* C15: for one factorize request the request's callback is never called
\* more than once and, once no externals function is still to answer, has
\* been called exactly once, with what the configuration comes to; the items
\* are consulted one after the other in index order, each at most once, and
\* only while all items before it came to nothing.
C15_CallbackOnce ==
    /\ Len(invoked) <= 1
    /\ Settled =>
            /\ Len(invoked) = 1
            /\ Called(invoked[1]) = Yield(externals)
            /\ \A k \in 1..Len(consulted) :
                    IsArray(ItemAt(externals, consulted[k])) =>
                        \A j \in 1..Len(ItemAt(externals, consulted[k]).items) :
                            Due(Append(consulted[k], j))
                                => IsConsulted(Append(consulted[k], j))
    /\ factorizing => Len(consulted) >= 1 /\ consulted[1] = <<>>
    /\ \A k \in 1..(Len(consulted) - 1) : Follows(consulted[k], consulted[k + 1])
    /\ \A k \in 1..Len(consulted) : Due(consulted[k])
    /\ pending # {} => invoked = <<>>

\* an array whose first member, a function, answered late with nothing,
\* whose second member then yielded the module, and whose third member was
\* never consulted
C15_Witness ==
    /\ Settled
    /\ IsArray(externals) /\ Len(externals.items) = 3
    /\ TypeOf(externals.items[1]) = "function"
    /\ externals.items[1].answers # "callback"
    /\ Yield(externals.items[1]) = "none"
    /\ Yield(externals.items[2]) = "module"
    /\ consulted = <<<<>>, <<1>>, <<2>>>>
    /\ Len(invoked) = 1 /\ Called(invoked[1]) = "module"
====
